---- MODULE Spec2Model ----
(***************************************************************************)
(* Model of the robot brain's intent-classification and dispatch core:     *)
(*   core/intent.py        IntentRecognizer (recognize, _calculate_         *)
(*                         confidence, _extract_parameters)                 *)
(*   core/task_manager.py  TaskManager (handle_intent and its handlers)     *)
(*   core/memory.py        MemoryManager (people and conversations tables)  *)
(*   actions/school_roles.py  SchoolRoleManager.role_permissions            *)
(*                                                                         *)
(* Text is a sequence of characters, one string per character.  ASCII      *)
(* characters stand for themselves; a Bangla character is written by its   *)
(* code point, "u099b" for U+099B.  The only whitespace character of the   *)
(* inputs is the space.                                                    *)
(***************************************************************************)
EXTENDS Integers, Sequences, FiniteSets, TLC

VARIABLES
  heard,          \* SpecIntent: the utterance (text, language) given to recognize
  intent,         \* SpecIntent: the Intent recognize returned for it
  people,         \* memory.db table people: name -> [role, language_preference]
  conversations,  \* memory.db table conversations, in insertion order
  motion_log,     \* MotionController commands issued, each with the caller
                  \* and the caller's role in people at that moment
  photo_log,      \* VisionTasks captures made, each with caller and role
  pc,             \* per call of handle_intent: where the call stands
  call,           \* per call: the arguments of handle_intent
  response,       \* per call: the local variable response
  result,         \* per call: what handle_intent gave its caller
  invoked,        \* per call: the handler handle_intent has called, if any
  permission,     \* SpecPermission: the latest call of check_permission
  patrol_status,  \* SchoolRoleManager.patrol_status
  current_route,  \* SchoolRoleManager.current_route, by the name of the route
  last_patrol,    \* SchoolRoleManager.patrol_routes: last_patrol of each route
  patrol_call,    \* the latest call of start_patrol or end_patrol
  is_moving,      \* MotionController.is_moving
  current_movement, \* MotionController.current_movement
  movement_thread,  \* MotionController.movement_thread, by the thread's number
  emergency_stop, \* MotionController.emergency_stop
  worker,         \* per thread of _movement_worker: where it stands
  stop_pc,        \* where a call of MotionController.stop stands
  motion_call     \* the latest call of a MotionController method that returned

patrolVars == <<patrol_status, current_route, last_patrol, patrol_call>>

motionVars == <<is_moving, current_movement, movement_thread, emergency_stop,
                worker, stop_pc, motion_call>>

vars == <<heard, intent, people, conversations, motion_log, photo_log,
          pc, call, response, result, invoked, permission, patrolVars, motionVars>>

-----------------------------------------------------------------------------
(* Python values *)

None == "None"

\* a dict with no keys
EmptyMap == [k \in {} |-> <<>>]

\* dict.get(key, default)
Get(d, key, default) == IF key \in DOMAIN d THEN d[key] ELSE default

-----------------------------------------------------------------------------
(* Floats that are quotients of two small integers, kept in lowest terms.  *)
(* Python computes matches / len(pattern_words) in binary floating point;  *)
(* two such quotients of small integers are equal, or ordered, as floats   *)
(* exactly when they are as rationals.                                     *)

RECURSIVE GCD(_, _)
GCD(a, b) == IF b = 0 THEN a ELSE GCD(b, a % b)

Frac(n, d) == LET g == GCD(n, d) IN [num |-> n \div g, den |-> d \div g]

FracGT(a, b) == a.num * b.den > b.num * a.den
FracGE(a, b) == a.num * b.den >= b.num * a.den
FracMax(a, b) == IF FracGT(b, a) THEN b ELSE a

Zero == Frac(0, 1)
One  == Frac(1, 1)

-----------------------------------------------------------------------------
(* str operations *)

Space == " "

\* str.lower() on the characters of the inputs; Bangla has no case
LowerChar(c) ==
  CASE c = "H" -> "h"
    [] c = "D" -> "d"
    [] c = "S" -> "s"
    [] OTHER -> c

Lower(t) == [i \in 1..Len(t) |-> LowerChar(t[i])]

\* str.strip()
RECURSIVE LStrip(_)
LStrip(t) == IF t # <<>> /\ Head(t) = Space THEN LStrip(Tail(t)) ELSE t

RECURSIVE RStrip(_)
RStrip(t) ==
  IF t # <<>> /\ t[Len(t)] = Space THEN RStrip(SubSeq(t, 1, Len(t) - 1)) ELSE t

Strip(t) == RStrip(LStrip(t))

\* p in t
Contains(t, p) ==
  \E i \in 0..(Len(t) - Len(p)) : SubSeq(t, i + 1, i + Len(p)) = p

\* t.startswith(p)
StartsWith(t, p) == Len(p) <= Len(t) /\ SubSeq(t, 1, Len(p)) = p

\* t.replace(old, ''), old not empty: every occurrence, found left to right
RECURSIVE Remove(_, _)
Remove(t, old) ==
  IF t = <<>> THEN <<>>
  ELSE IF StartsWith(t, old) THEN Remove(SubSeq(t, Len(old) + 1, Len(t)), old)
  ELSE <<Head(t)>> \o Remove(Tail(t), old)

\* t.split(): the maximal runs of characters that are not whitespace
RECURSIVE SplitFrom(_, _, _)
SplitFrom(t, word, done) ==
  IF t = <<>> THEN (IF word = <<>> THEN done ELSE Append(done, word))
  ELSE IF Head(t) = Space
       THEN SplitFrom(Tail(t), <<>>, IF word = <<>> THEN done ELSE Append(done, word))
       ELSE SplitFrom(Tail(t), Append(word, Head(t)), done)

Split(t) == SplitFrom(t, <<>>, <<>>)

-----------------------------------------------------------------------------
(* IntentType, by the enum's values *)

GREETING         == "greeting"
QUESTION         == "question"
COMMAND          == "command"
ENTERTAINMENT    == "entertainment"
CAMERA_CAPTURE   == "camera_capture"
FACE_RECOGNITION == "face_recognition"
MOVEMENT         == "movement"
SEARCH           == "search"
UNKNOWN          == "unknown"

IntentType == {GREETING, QUESTION, COMMAND, ENTERTAINMENT, CAMERA_CAPTURE,
               FACE_RECOGNITION, MOVEMENT, SEARCH, UNKNOWN}

\* A pattern of the catalog.  Every pattern of the source is a literal phrase,
\* or a literal word followed by \s+ (one or more whitespace characters).
Lit(s) == [lit |-> s, ws |-> FALSE]
Rx(s)  == [lit |-> s, ws |-> TRUE]

bangla_patterns ==
     "greeting" :>
       <<
         Lit(<<"u0986","u09b8","u09b8","u09be","u09b2","u09be","u09ae","u09c1"," ","u0986","u09b2","u09be","u0987","u0995","u09c1","u09ae">>),   \* [aa][sa][sa][-aa][la][-aa][ma][-u] [aa][la][-aa][i][ka][-u][ma]
         Lit(<<"u09a8","u09ae","u09b8","u09cd","u0995","u09be","u09b0">>),   \* [na][ma][sa][virama][ka][-aa][ra]
         Lit(<<"u09b9","u09cd","u09af","u09be","u09b2","u09cb">>),   \* [ha][virama][ya][-aa][la][-o]
         Lit(<<"u0995","u09c7","u09ae","u09a8"," ","u0986","u099b","u09c7","u09a8">>),   \* [ka][-e][ma][na] [aa][cha][-e][na]
         Lit(<<"u0995","u09c7","u09ae","u09a8"," ","u0986","u099b","u09cb">>),   \* [ka][-e][ma][na] [aa][cha][-o]
         Lit(<<"u09ad","u09be","u09b2","u09cb"," ","u0986","u099b","u09c7","u09a8">>),   \* [bha][-aa][la][-o] [aa][cha][-e][na]
         Lit(<<"u09ad","u09be","u09b2","u09cb"," ","u0986","u099b","u09cb">>)   \* [bha][-aa][la][-o] [aa][cha][-o]
       >>
  @@ "question" :>
       <<
         Rx(<<"u0995","u09bf">>),   \* [ka][-i]
         Rx(<<"u0995","u09c0">>),   \* [ka][-ii]
         Rx(<<"u0995","u09c7","u09a8">>),   \* [ka][-e][na]
         Rx(<<"u0995","u0996","u09a8">>),   \* [ka][kha][na]
         Rx(<<"u0995","u09cb","u09a5","u09be","u09af","u09bc">>),   \* [ka][-o][tha][-aa][ya][nukta]
         Rx(<<"u0995","u09bf","u09ad","u09be","u09ac","u09c7">>),   \* [ka][-i][bha][-aa][ba][-e]
         Rx(<<"u0995","u09be","u09a6","u09c7","u09b0">>),   \* [ka][-aa][da][-e][ra]
         Rx(<<"u0995","u09be","u09a6","u09c7","u09b0","u0995","u09c7">>),   \* [ka][-aa][da][-e][ra][ka][-e]
         Lit(<<"u099c","u09be","u09a8","u09a4","u09c7"," ","u099a","u09be","u0987">>),   \* [ja][-aa][na][ta][-e] [ca][-aa][i]
         Lit(<<"u09ac","u09b2","u09c1","u09a8">>),   \* [ba][la][-u][na]
         Lit(<<"u09ac","u09b2","u09cb">>),   \* [ba][la][-o]
         Lit(<<"u0995","u09bf"," ","u099c","u09be","u09a8","u09c7","u09a8">>),   \* [ka][-i] [ja][-aa][na][-e][na]
         Lit(<<"u0995","u09bf"," ","u099c","u09be","u09a8","u09cb">>)   \* [ka][-i] [ja][-aa][na][-o]
       >>
  @@ "entertainment" :>
       <<
         Lit(<<"u0995","u09cc","u09a4","u09c1","u0995">>),   \* [ka][-au][ta][-u][ka]
         Lit(<<"u099c","u09cb","u0995">>),   \* [ja][-o][ka]
         Lit(<<"u0997","u09b2","u09cd","u09aa">>),   \* [ga][la][virama][pa]
         Lit(<<"u0997","u09be","u09a8">>),   \* [ga][-aa][na]
         Lit(<<"u09ae","u099c","u09be","u09b0">>),   \* [ma][ja][-aa][ra]
         Lit(<<"u09b9","u09be","u09b8","u09bf","u09b0">>),   \* [ha][-aa][sa][-i][ra]
         Lit(<<"u09ac","u09bf","u09a8","u09cb","u09a6","u09a8">>)   \* [ba][-i][na][-o][da][na]
       >>
  @@ "camera_capture" :>
       <<
         Lit(<<"u099b","u09ac","u09bf"," ","u09a4","u09c1","u09b2","u09cb">>),   \* [cha][ba][-i] [ta][-u][la][-o]
         Lit(<<"u09ab","u099f","u09cb"," ","u09a8","u09be","u0993">>),   \* [pha][tta][-o] [na][-aa][o]
         Lit(<<"u099a","u09bf","u09a4","u09cd","u09b0"," ","u09a7","u09be","u09b0","u09a3">>),   \* [ca][-i][ta][virama][ra] [dha][-aa][ra][nna]
         Lit(<<"u0995","u09cd","u09af","u09be","u09ae","u09c7","u09b0","u09be">>),   \* [ka][virama][ya][-aa][ma][-e][ra][-aa]
         Lit(<<"u0986","u09ae","u09be","u09b0"," ","u099b","u09ac","u09bf">>)   \* [aa][ma][-aa][ra] [cha][ba][-i]
       >>
  @@ "movement" :>
       <<
         Lit(<<"u098f","u0997","u09bf","u09af","u09bc","u09c7"," ","u09af","u09be","u0993">>),   \* [e][ga][-i][ya][nukta][-e] [ya][-aa][o]
         Lit(<<"u09aa","u09bf","u099b","u09a8","u09c7"," ","u09af","u09be","u0993">>),   \* [pa][-i][cha][na][-e] [ya][-aa][o]
         Lit(<<"u09a1","u09be","u09a8","u09c7"," ","u09af","u09be","u0993">>),   \* [dda][-aa][na][-e] [ya][-aa][o]
         Lit(<<"u09ac","u09be","u09ae","u09c7"," ","u09af","u09be","u0993">>),   \* [ba][-aa][ma][-e] [ya][-aa][o]
         Lit(<<"u0998","u09c1","u09b0","u09cb">>),   \* [gha][-u][ra][-o]
         Lit(<<"u09b9","u09be","u09a4"," ","u09a8","u09be","u09a1","u09bc","u09be","u0993">>),   \* [ha][-aa][ta] [na][-aa][dda][nukta][-aa][o]
         Lit(<<"u09ae","u09be","u09a5","u09be"," ","u09a8","u09be","u09a1","u09bc","u09be","u0993">>)   \* [ma][-aa][tha][-aa] [na][-aa][dda][nukta][-aa][o]
       >>
  @@ "search" :>
       <<
         Lit(<<"u0996","u09c1","u0981","u099c","u09c7"," ","u09ac","u09c7","u09b0"," ","u0995","u09b0","u09cb">>),   \* [kha][-u][candrabindu][ja][-e] [ba][-e][ra] [ka][ra][-o]
         Lit(<<"u0987","u09a8","u09cd","u099f","u09be","u09b0","u09a8","u09c7","u099f","u09c7"," ","u09a6","u09c7","u0996","u09cb">>),   \* [i][na][virama][tta][-aa][ra][na][-e][tta][-e] [da][-e][kha][-o]
         Lit(<<"u0997","u09c1","u0997","u09b2","u09c7"," ","u09a6","u09c7","u0996","u09cb">>),   \* [ga][-u][ga][la][-e] [da][-e][kha][-o]
         Lit(<<"u0985","u09a8","u09b2","u09be","u0987","u09a8","u09c7"," ","u09a6","u09c7","u0996","u09cb">>)   \* [a][na][la][-aa][i][na][-e] [da][-e][kha][-o]
       >>

english_patterns ==
     "greeting" :>
       <<
         Lit(<<"h","e","l","l","o">>),
         Lit(<<"h","i">>),
         Lit(<<"h","e","y">>),
         Lit(<<"g","o","o","d"," ","m","o","r","n","i","n","g">>),
         Lit(<<"g","o","o","d"," ","a","f","t","e","r","n","o","o","n">>),
         Lit(<<"g","o","o","d"," ","e","v","e","n","i","n","g">>),
         Lit(<<"h","o","w"," ","a","r","e"," ","y","o","u">>),
         Lit(<<"h","o","w"," ","d","o"," ","y","o","u"," ","d","o">>),
         Lit(<<"n","i","c","e"," ","t","o"," ","m","e","e","t"," ","y","o","u">>)
       >>
  @@ "question" :>
       <<
         Rx(<<"w","h","a","t">>),
         Rx(<<"w","h","y">>),
         Rx(<<"w","h","e","n">>),
         Rx(<<"w","h","e","r","e">>),
         Rx(<<"h","o","w">>),
         Rx(<<"w","h","o">>),
         Rx(<<"w","h","i","c","h">>),
         Lit(<<"c","a","n"," ","y","o","u"," ","t","e","l","l"," ","m","e">>),
         Lit(<<"d","o"," ","y","o","u"," ","k","n","o","w">>),
         Lit(<<"e","x","p","l","a","i","n">>),
         Lit(<<"d","e","s","c","r","i","b","e">>)
       >>
  @@ "entertainment" :>
       <<
         Lit(<<"t","e","l","l"," ","m","e"," ","a"," ","j","o","k","e">>),
         Lit(<<"j","o","k","e">>),
         Lit(<<"f","u","n","n","y">>),
         Lit(<<"s","t","o","r","y">>),
         Lit(<<"s","i","n","g">>),
         Lit(<<"e","n","t","e","r","t","a","i","n","m","e","n","t">>),
         Lit(<<"p","l","a","y">>)
       >>
  @@ "camera_capture" :>
       <<
         Lit(<<"t","a","k","e"," ","a"," ","p","i","c","t","u","r","e">>),
         Lit(<<"t","a","k","e"," ","m","y"," ","p","h","o","t","o">>),
         Lit(<<"c","a","p","t","u","r","e">>),
         Lit(<<"c","a","m","e","r","a">>),
         Lit(<<"s","n","a","p","s","h","o","t">>),
         Lit(<<"p","h","o","t","o","g","r","a","p","h">>)
       >>
  @@ "movement" :>
       <<
         Lit(<<"m","o","v","e"," ","f","o","r","w","a","r","d">>),
         Lit(<<"m","o","v","e"," ","b","a","c","k","w","a","r","d">>),
         Lit(<<"t","u","r","n"," ","l","e","f","t">>),
         Lit(<<"t","u","r","n"," ","r","i","g","h","t">>),
         Lit(<<"w","a","v","e"," ","h","a","n","d">>),
         Lit(<<"n","o","d"," ","h","e","a","d">>),
         Lit(<<"w","a","l","k">>)
       >>
  @@ "search" :>
       <<
         Lit(<<"s","e","a","r","c","h"," ","f","o","r">>),
         Lit(<<"l","o","o","k"," ","u","p">>),
         Lit(<<"f","i","n","d"," ","i","n","f","o","r","m","a","t","i","o","n">>),
         Lit(<<"g","o","o","g","l","e">>),
         Lit(<<"i","n","t","e","r","n","e","t"," ","s","e","a","r","c","h">>)
       >>

\* the tables iterated from their last kind to their first
PatternKindsReversed ==
  <<SEARCH, MOVEMENT, CAMERA_CAPTURE, ENTERTAINMENT, QUESTION, GREETING>>

\* dict iteration order of both pattern tables (insertion order)
PatternKinds ==
  <<GREETING, QUESTION, ENTERTAINMENT, CAMERA_CAPTURE, MOVEMENT, SEARCH>>

\* a threshold of one half
confidence_threshold_half == Frac(1, 2)

confidence_threshold == Frac(6, 10)

\* re.search(pattern, text, re.IGNORECASE)
re_search(pattern, text) ==
  Contains(Lower(text),
           IF pattern.ws THEN pattern.lit \o <<Space>> ELSE pattern.lit)

\* pattern.replace(r'\s+', ' ').split()
pattern_words_of(pattern) ==
  Split(IF pattern.ws THEN pattern.lit \o <<Space>> ELSE pattern.lit)

\* the loops without the break: every pair of an input word and a pattern
\* word that contain one another adds one to matches
partial_matches_every_pair(words, pattern_words) ==
  Cardinality({p \in (1..Len(words)) \X (1..Len(pattern_words)) :
                 \/ Contains(pattern_words[p[2]], words[p[1]])
                 \/ Contains(words[p[1]], pattern_words[p[2]])})

\* the inner loops of _calculate_confidence: the input words that contain, or
\* are contained in, some word of the pattern; each adds one to matches
partial_matches(words, pattern_words) ==
  Cardinality({i \in 1..Len(words) :
                 \E j \in 1..Len(pattern_words) :
                    \/ Contains(pattern_words[j], words[i])
                    \/ Contains(words[i], pattern_words[j])})

\* the body of the loop over patterns: the confidence of one pattern
pattern_confidence(text, pattern) ==
  IF re_search(pattern, text) THEN One
  ELSE LET words == Split(text)
           pattern_words == pattern_words_of(pattern)
       IN  IF pattern_words # <<>>
           THEN Frac(partial_matches(words, pattern_words), Len(pattern_words))
           ELSE Zero

RECURSIVE confidence_from(_, _, _, _)
confidence_from(text, patterns, i, max_confidence) ==
  IF i > Len(patterns) THEN max_confidence
  ELSE confidence_from(text, patterns, i + 1,
                       FracMax(max_confidence, pattern_confidence(text, patterns[i])))

\* max_confidence overwritten by each pattern: the confidence of the last one
calculate_confidence_of_last(text, patterns) ==
  pattern_confidence(text, patterns[Len(patterns)])

calculate_confidence(text, patterns) == confidence_from(text, patterns, 1, Zero)

\* any(word in text for word in words)
AnyIn(words, text) == \E i \in 1..Len(words) : Contains(text, words[i])

\* for word in question_words: text = text.replace(word, '').strip()
RECURSIVE strip_question_words(_, _, _)
strip_question_words(text, question_words, i) ==
  IF i > Len(question_words) THEN text
  ELSE strip_question_words(Strip(Remove(text, question_words[i])),
                            question_words, i + 1)

bangla_question_words ==
  << <<"u0995","u09bf">>,                                \* ki
     <<"u0995","u09c0">>,                                \* kii
     <<"u0995","u09c7","u09a8">>,                        \* keno
     <<"u0995","u0996","u09a8">>,                        \* kokhon
     <<"u0995","u09cb","u09a5","u09be","u09af","u09bc">>, \* kothay
     <<"u0995","u09bf","u09ad","u09be","u09ac","u09c7">>, \* kibhabe
     <<"u0995","u09be","u09a6","u09c7","u09b0">>,        \* kader
     <<"u0995","u09be","u09a6","u09c7","u09b0","u0995","u09c7">> >>  \* kaderke

english_question_words ==
  << <<"w","h","a","t">>, <<"w","h","y">>, <<"w","h","e","n">>,
     <<"w","h","e","r","e">>, <<"h","o","w">>, <<"w","h","o">>,
     <<"w","h","i","c","h">> >>

bangla_self_words ==
  << <<"u0986","u09ae","u09be","u09b0">>,           \* amar
     <<"u0986","u09ae","u09be","u0995","u09c7">>,   \* amake
     <<"u09b8","u09c7","u09b2","u09ab","u09bf">> >> \* selfie

english_self_words == << <<"m","y">>, <<"m","e">>, <<"s","e","l","f","i","e">> >>

bangla_search_prefixes ==
  << <<"u0996","u09c1","u0981","u099c","u09c7"," ","u09ac","u09c7","u09b0"," ","u0995","u09b0","u09cb">>,
     <<"u0987","u09a8","u09cd","u099f","u09be","u09b0","u09a8","u09c7","u099f","u09c7"," ","u09a6","u09c7","u0996","u09cb">>,
     <<"u0997","u09c1","u0997","u09b2","u09c7"," ","u09a6","u09c7","u0996","u09cb">>,
     <<"u0985","u09a8","u09b2","u09be","u0987","u09a8","u09c7"," ","u09a6","u09c7","u0996","u09cb">> >>

english_search_prefixes ==
  << <<"s","e","a","r","c","h"," ","f","o","r">>,
     <<"l","o","o","k"," ","u","p">>,
     <<"f","i","n","d"," ","i","n","f","o","r","m","a","t","i","o","n"," ","a","b","o","u","t">>,
     <<"g","o","o","g","l","e">> >>

\* for prefix in search_prefixes: if prefix in text: query = ...; break
RECURSIVE search_query(_, _, _)
search_query(text, search_prefixes, i) ==
  IF i > Len(search_prefixes) THEN EmptyMap
  ELSE IF Contains(text, search_prefixes[i])
       THEN "query" :> Strip(Remove(text, search_prefixes[i]))
       ELSE search_query(text, search_prefixes, i + 1)

bangla_direction(text) ==
  IF \/ Contains(text, <<"u098f","u0997","u09bf","u09af","u09bc","u09c7">>)  \* egiye
     \/ Contains(text, <<"u09b8","u09be","u09ae","u09a8","u09c7">>)          \* samne
     THEN "direction" :> "forward"
  ELSE IF Contains(text, <<"u09aa","u09bf","u099b","u09a8","u09c7">>)        \* pichone
     THEN "direction" :> "backward"
  ELSE IF Contains(text, <<"u09a1","u09be","u09a8","u09c7">>)                \* dane
     THEN "direction" :> "right"
  ELSE IF Contains(text, <<"u09ac","u09be","u09ae","u09c7">>)                \* bame
     THEN "direction" :> "left"
  ELSE EmptyMap

english_direction(text) ==
  IF Contains(text, <<"f","o","r","w","a","r","d">>)
     THEN "direction" :> "forward"
  ELSE IF \/ Contains(text, <<"b","a","c","k","w","a","r","d">>)
          \/ Contains(text, <<"b","a","c","k">>)
     THEN "direction" :> "backward"
  ELSE IF Contains(text, <<"l","e","f","t">>)
     THEN "direction" :> "left"
  ELSE IF Contains(text, <<"r","i","g","h","t">>)
     THEN "direction" :> "right"
  ELSE EmptyMap

extract_parameters(text, intent_type, language) ==
  CASE intent_type = QUESTION ->
         "topic" :> strip_question_words(
                      text,
                      IF language = "bn" THEN bangla_question_words
                                         ELSE english_question_words,
                      1)
    [] intent_type = CAMERA_CAPTURE ->
         IF AnyIn(IF language = "bn" THEN bangla_self_words
                                     ELSE english_self_words, text)
         THEN "target" :> "self"
         ELSE EmptyMap
    [] intent_type = MOVEMENT ->
         IF language = "bn" THEN bangla_direction(text)
                            ELSE english_direction(text)
    [] intent_type = SEARCH ->
         search_query(text,
                      IF language = "bn" THEN bangla_search_prefixes
                                         ELSE english_search_prefixes,
                      1)
    [] OTHER -> EmptyMap

\* the loop with >= for >: the last of the best kinds wins, and a kind that
\* scored 0 replaces None
RECURSIVE best_from_last_wins(_, _, _, _)
best_from_last_wins(text, patterns, i, best) ==
  IF i > Len(PatternKinds) THEN best
  ELSE LET intent_type == PatternKinds[i]
           confidence == calculate_confidence(text, patterns[intent_type])
       IN  best_from_last_wins(text, patterns, i + 1,
                               IF FracGE(confidence, best.confidence)
                               THEN [intent |-> intent_type, confidence |-> confidence]
                               ELSE best)

\* the loop of recognize over patterns.items(): best_intent and best_confidence
RECURSIVE best_from(_, _, _, _)
best_from(text, patterns, i, best) ==
  IF i > Len(PatternKinds) THEN best
  ELSE LET intent_type == PatternKinds[i]
           confidence == calculate_confidence(text, patterns[intent_type])
       IN  best_from(text, patterns, i + 1,
                     IF FracGT(confidence, best.confidence)
                     THEN [intent |-> intent_type, confidence |-> confidence]
                     ELSE best)

\* the English patterns for every language
patterns_for_english_only(language) == english_patterns

\* patterns = self.bangla_patterns if language == 'bn' else self.english_patterns
patterns_for(language) ==
  IF language = "bn" THEN bangla_patterns ELSE english_patterns

\* recognize that reports Unknown, with confidence 0, below the threshold
recognize_weak_is_unknown(raw_text, language) ==
  LET text == Strip(Lower(raw_text))
      best == best_from(text, patterns_for(language), 1,
                        [intent |-> UNKNOWN, confidence |-> Zero])
  IN  IF FracGE(best.confidence, confidence_threshold)
      THEN [type |-> best.intent, confidence |-> best.confidence,
            parameters |-> extract_parameters(text, best.intent, language),
            original_text |-> text, language |-> language]
      ELSE [type |-> UNKNOWN, confidence |-> Zero, parameters |-> EmptyMap,
            original_text |-> text, language |-> language]

recognize(raw_text, language) ==
  LET text == Strip(Lower(raw_text))
      patterns == patterns_for(language)
      best == best_from(text, patterns, 1, [intent |-> None, confidence |-> Zero])
      parameters == IF FracGE(best.confidence, confidence_threshold)
                    THEN extract_parameters(text, best.intent, language)
                    ELSE EmptyMap
  IN  [type          |-> IF best.intent # None THEN best.intent ELSE UNKNOWN,
       confidence    |-> best.confidence,
       parameters    |-> parameters,
       original_text |-> text,
       language      |-> language]

-----------------------------------------------------------------------------
(* The utterances given to the recognizer: every text of at most MaxWords  *)
(* words of Vocabulary joined by single spaces, and the utterances of the  *)
(* tests and scenarios, with their capitals, punctuation and padding.      *)

MaxWords == 2

Vocabulary ==
  { <<"h","e","l","l","o">>,
    <<"g","o","o","d">>,
    <<"w","h","a","t">>,
    <<"s","e","a","r","c","h">>,
    <<"f","o","r">>,
    <<"i","n">>,
    <<"m","e">>,
    <<"f","o","r","w","a","r","d">>,
    <<"z","z","z">>,
    <<"u099b","u09ac","u09bf">>,            \* chobi
    <<"u0997","u09be","u09a8">>,            \* gaan
    <<"u0995","u09bf">> }                   \* ki

RECURSIVE Join(_)
Join(words) ==
  IF words = <<>> THEN <<>>
  ELSE IF Len(words) = 1 THEN words[1]
  ELSE words[1] \o <<Space>> \o Join(Tail(words))

\* "Hello, how are you?"   (test_system.py)
HelloHowAreYou ==
  <<"H","e","l","l","o",","," ","h","o","w"," ","a","r","e"," ","y","o","u","?">>

\* "search for weather in Dhaka"
SearchForWeatherInDhaka ==
  <<"s","e","a","r","c","h"," ","f","o","r"," ","w","e","a","t","h","e","r"," ",
    "i","n"," ","D","h","a","k","a">>

\* "  Search  for me " : capitals and padding
PaddedSearch ==
  <<" "," ","S","e","a","r","c","h"," "," ","f","o","r"," ","m","e"," ">>

\* a single word that matches half of "move forward"
Forward == <<"f","o","r","w","a","r","d">>

\* "chobi tulo"   (test_system.py)
ChobiTulo == <<"u099b","u09ac","u09bf"," ","u09a4","u09c1","u09b2","u09cb">>

\* "kibhabe kaj kore" (how does it work): a Bangla question
KibhabeKajKore ==
  <<"u0995","u09bf","u09ad","u09be","u09ac","u09c7"," ","u0995","u09be","u099c"," ","u0995","u09b0","u09c7">>

\* "bame jao dane jao" (go left, go right): a Bangla movement command
BameJaoDaneJao ==
  <<"u09ac","u09be","u09ae","u09c7"," ","u09af","u09be","u0993"," ","u09a1","u09be","u09a8","u09c7"," ","u09af","u09be","u0993">>

\* English utterances a user can say to the robot
OpenCamera == <<"o","p","e","n"," ","c","a","m","e","r","a">>

SearchForDhaka == <<"s","e","a","r","c","h"," ","f","o","r"," ","D","h","a","k","a">>

LookUpTheWordLookUp ==
  <<"l","o","o","k"," ","u","p"," ","t","h","e"," ","w","o","r","d"," ","l","o","o","k"," ","u","p">>

ScenarioTexts ==
  {HelloHowAreYou, SearchForWeatherInDhaka, PaddedSearch, ChobiTulo, Forward,
   KibhabeKajKore, BameJaoDaneJao, OpenCamera, SearchForDhaka, LookUpTheWordLookUp}

InputTexts ==
  {Join(ws) : ws \in UNION {[1..n -> Vocabulary] : n \in 0..MaxWords}}
    \cup ScenarioTexts

Languages == {"bn", "en"}

\* no utterance yet, no Intent yet, no call of check_permission yet
NoUtterance == [text |-> None]
NoIntent == [type |-> None]
NoPermission ==
  [user_role |-> None, action |-> None, returned |-> TRUE, granted |-> FALSE]
-----------------------------------------------------------------------------
(* SchoolRoleManager: the permission table.                                *)

role_permissions ==
     "student"   :> {"ask_questions", "request_help", "entertainment"}
  @@ "teacher"   :> {"ask_questions", "request_help", "entertainment",
                     "take_photos", "student_info"}
  @@ "principal" :> {"ask_questions", "request_help", "entertainment",
                     "take_photos", "student_info", "reports", "system_control"}
  @@ "admin"     :> {"all_permissions"}

\* the check without the branch for all_permissions
check_permission_no_wildcard(user_role, action) ==
  IF user_role \notin DOMAIN role_permissions THEN FALSE
  ELSE action \in role_permissions[user_role]

check_permission(user_role, action) ==
  IF user_role \notin DOMAIN role_permissions THEN FALSE
  ELSE IF "all_permissions" \in role_permissions[user_role] THEN TRUE
  ELSE action \in role_permissions[user_role]

-----------------------------------------------------------------------------
(* MemoryManager: the tables people and conversations of memory.db.        *)
(* A row of conversations is kept without its id and timestamp; NULL is    *)
(* None.                                                                   *)

Names == {"alice"}
Roles == {"student", "teacher", "principal", "admin", "friend"}

\* current_user: a name, or None when no face was identified
Users == Names \cup {None}

\* get_user_preferences(user_name): {} when the name is not in people
get_user_preferences(user_name) ==
  IF user_name \in DOMAIN people
  THEN [role |-> people[user_name].role,
        language_preference |-> people[user_name].language_preference]
  ELSE EmptyMap

\* the row add_conversation inserts
conversation_row(user_name, input_text, input_language, intent_type, response_text, response_language, confidence) ==
  [user_name         |-> user_name,
   input_text        |-> input_text,
   input_language    |-> input_language,
   intent_type       |-> intent_type,
   response_text     |-> response_text,
   response_language |-> response_language,
   confidence        |-> confidence]

-----------------------------------------------------------------------------
(* The strings the handlers return.  An English string is the source's;    *)
(* a Bangla string is written "bn: " and its English gloss.  A character   *)
(* sequence (a query) is spliced into a string by Str.                     *)

RECURSIVE Str(_)
Str(cs) == IF cs = <<>> THEN "" ELSE Head(cs) \o Str(Tail(cs))

\* the generic failure string in English for every language
get_error_response_english(language) ==
  "Sorry, something went wrong. Please try again."

get_error_response(language) ==
  IF language = "bn"
  THEN "bn: Sorry, there was a problem. Try again."
  ELSE "Sorry, something went wrong. Please try again."

\* ResponseRouter._get_fallback_response
router_fallback_response(language) ==
  IF language = "bn"
  THEN "bn: Sorry, I cannot give an answer now. Try again later."
  ELSE "Sorry, I can't provide a response right now. Please try again later."

\* ResponseRouter.get_response.  _select_model_and_prompt evaluates
\* self.system_prompts[f"{language}_general"], a key the table does not hold
\* (its keys are 'bangla_general', 'english_general', ...), so it raises
\* KeyError on every call; get_response catches it and returns the fallback.
get_response(language) == router_fallback_response(language)

greeting_known(role, lang_pref, current_user) ==
  IF lang_pref = "bn"
  THEN CASE role = "principal" -> "bn: Assalamu alaikum, Principal sir! Very glad to meet you."
         [] role = "teacher"   -> "bn: Assalamu alaikum, sir! How are you?"
         [] role = "student"   -> "bn: Hello! How are you? How was class today?"
         [] OTHER -> "bn: Assalamu alaikum, " \o current_user \o "! How are you?"
  ELSE CASE role = "principal" -> "Good day, Principal! It's wonderful to see you."
         [] role = "teacher"   -> "Hello, Sir! How are you today?"
         [] role = "student"   -> "Hi there! How was your class today?"
         [] OTHER -> "Hello, " \o current_user \o "! Great to see you."

greeting_general(language) ==
  IF language = "bn"
  THEN "bn: Assalamu alaikum! I am your robot assistant. I am ready to talk with you."
  ELSE "Hello! I'm your robot assistant. I'm ready to help you."

movement_refusal(language) ==
  IF language = "bn"
  THEN "bn: Sorry, I can only move on the instruction of a teacher or the principal."
  ELSE "Sorry, I can only move when instructed by teachers or the principal."

movement_done(language, direction) ==
  IF language = "bn"
  THEN "bn: All right, I am going " \o direction \o "."
  ELSE "Okay, moving " \o direction \o "."

\* the path VisionTasks returns for a saved picture
PhotoPath == "photo.jpg"

selfie_response(language, photo_path) ==
  IF photo_path # None
  THEN IF language = "bn"
       THEN "bn: Your photo has been taken! Saved to " \o photo_path
       ELSE "Your photo has been taken! Saved to " \o photo_path
  ELSE IF language = "bn"
       THEN "bn: Sorry, the photo could not be taken. Try again."
       ELSE "Sorry, couldn't take the photo. Please try again."

photo_response(language, photo_path) ==
  IF photo_path # None
  THEN IF language = "bn"
       THEN "bn: Photo taken! Saved to " \o photo_path
       ELSE "Photo taken! Saved to " \o photo_path
  ELSE IF language = "bn"
       THEN "bn: Sorry, the photo could not be taken."
       ELSE "Sorry, couldn't take the photo."

search_ask_query(language) ==
  IF language = "bn"
  THEN "bn: What do you want to search for? Please say it clearly."
  ELSE "What would you like me to search for? Please be more specific."

search_nothing_found(language, query) ==
  IF language = "bn"
  THEN "bn: Found no information about '" \o Str(query) \o "'. Try again."
  ELSE "Couldn't find information about '" \o Str(query) \o "'. Please try again."

unknown_response(language) ==
  IF language = "bn"
  THEN "bn: Sorry, I did not understand. What did you mean? Please say it again."
  ELSE "Sorry, I didn't understand. What would you like me to do? Please try again."

\* EntertainmentModule: the content tables are data; a piece of content is
\* written by its introduction
ContentTypes == {"joke", "story", "riddle"}

entertainment_content(content_type, language) ==
  IF language = "bn" THEN "bn: Listen to a " \o content_type
                     ELSE "Here's a " \o content_type

educational_story(language) ==
  IF language = "bn" THEN "bn: Educational story" ELSE "Educational Story"

get_general_content(content_type, language) ==
  entertainment_content(content_type, language)

get_student_content(content_type, language) ==
  IF content_type = "story" THEN educational_story(language)
  ELSE entertainment_content(content_type, language)

get_professional_content(language) ==
  IF language = "bn"
  THEN "bn: May today be good for you! Education is the path of light."
  ELSE "Have a wonderful day! Education is the light of life."

-----------------------------------------------------------------------------
(* TaskManager.handle_intent, one action per step of a call.  Each handler *)
(* is one step; the store's operations and the actions on the robot are    *)
(* the steps other calls can see.                                          *)

\* the conversations table holds at most MaxLog rows: a call is started only
\* if its two rows still fit
MaxLog == 2

Calls == {1}

NoCall == [intent |-> NoIntent]
NoResult == [kind |-> None]

\* self.handlers
handlers ==
     GREETING       :> "_handle_greeting"
  @@ QUESTION       :> "_handle_question"
  @@ ENTERTAINMENT  :> "_handle_entertainment"
  @@ CAMERA_CAPTURE :> "_handle_camera_capture"
  @@ MOVEMENT       :> "_handle_movement"
  @@ SEARCH         :> "_handle_search"
  @@ UNKNOWN        :> "_handle_unknown"

\* the lookup with the greeting handler as its default
handler_of_default_greeting(intent_type) == Get(handlers, intent_type, "_handle_greeting")

\* self.handlers.get(intent.type, self._handle_unknown)
handler_of(intent_type) == Get(handlers, intent_type, "_handle_unknown")

\* no except clause: the exception leaves handle_intent
handle_exception_propagates(language) ==
  [kind |-> "raise", value |-> "Exception"]

\* except Exception as e: return self._get_error_response(language)
handle_exception(language) ==
  [kind |-> "return", value |-> get_error_response(language)]

\* return response
return_response(value) == [kind |-> "return", value |-> value]

\* if response:
Truthy(value) == value # None /\ value # ""

\* role = user_info.get('role', 'friend')
role_of(current_user) == Get(get_user_preferences(current_user), "role", "friend")

\* the list with student in it
movement_roles_with_student == {"principal", "teacher", "admin", "student"}

\* the roles _handle_movement lets move the robot
movement_roles == {"principal", "teacher", "admin"}

\* the MotionController method _handle_movement calls for a direction
motion_command(direction) ==
  CASE direction = "forward"  -> "move_forward"
    [] direction = "backward" -> "move_backward"
    [] direction = "left"     -> "turn_left"
    [] direction = "right"    -> "turn_right"
    [] OTHER                  -> "wave_hand"

\* The Intents handle_intent is called with directly: of every IntentType,
\* at or above the threshold with the parameters of its type, below it with
\* none, and Unknown with confidence 0.
AQuery == <<"q">>

TypeParameters(intent_type) ==
  CASE intent_type = QUESTION -> {"topic" :> AQuery}
    [] intent_type = CAMERA_CAPTURE -> {EmptyMap, "target" :> "self"}
    [] intent_type = MOVEMENT ->
         {EmptyMap} \cup {"direction" :> d : d \in {"forward", "backward", "left", "right"}}
    [] intent_type = SEARCH -> {EmptyMap, "query" :> AQuery}
    [] OTHER -> {EmptyMap}

IntentOf(intent_type, confidence, parameters, language) ==
  [type |-> intent_type, confidence |-> confidence, parameters |-> parameters,
   original_text |-> AQuery, language |-> language]

DirectIntents ==
  {IntentOf(UNKNOWN, Zero, EmptyMap, l) : l \in Languages}
    \cup UNION {{IntentOf(t, Frac(1, 2), EmptyMap, l) : l \in Languages} :
                  t \in IntentType \ {UNKNOWN}}
    \cup UNION {{IntentOf(t, One, p, l) : p \in TypeParameters(t), l \in Languages} :
                  t \in IntentType \ {UNKNOWN}}

\* the utterances process_speech_input is given
SpeechTexts == {HelloHowAreYou, SearchForWeatherInDhaka, Forward}

\* handle_intent(intent, text, language, current_user) is entered;
\* rows_before notes how many rows conversations holds at that moment
Enter(c, intent_, text, language, current_user) ==
  /\ pc[c] \in {"idle", "done"}
  /\ Len(conversations) + 2 <= MaxLog
  /\ call' = [call EXCEPT ![c] = [intent |-> intent_, text |-> text,
                                  language |-> language,
                                  current_user |-> current_user,
                                  rows_before |-> Len(conversations)]]
  /\ pc' = [pc EXCEPT ![c] = "log_input"]
  /\ response' = [response EXCEPT ![c] = None]
  /\ result' = [result EXCEPT ![c] = NoResult]
  /\ invoked' = [invoked EXCEPT ![c] = None]
  /\ UNCHANGED <<heard, intent, permission, patrolVars, motionVars, people, conversations, motion_log, photo_log>>

\* a caller hands handle_intent an Intent; every caller of the repository
\* passes the Intent's own language (main.py)
CallHandleIntent(c) ==
  \E i \in DirectIntents, u \in Users :
     Enter(c, i, i.original_text, i.language, u)

\* RobotBrain.process_speech_input: recognize, then handle_intent
ProcessSpeechInput(c) ==
  \E text \in SpeechTexts, language \in Languages, u \in Users :
     Enter(c, recognize(text, language), text, language, u)

\* the call ends: its result is what the caller gets
Finish(c, res) ==
  /\ result' = [result EXCEPT ![c] = res]
  /\ pc' = [pc EXCEPT ![c] = "done"]

\* handle_intent without its first add_conversation
LogInputSkipped(c) ==
  /\ pc[c] = "log_input"
  /\ pc' = [pc EXCEPT ![c] = "dispatch"]
  /\ UNCHANGED <<heard, intent, permission, patrolVars, motionVars, people, conversations, motion_log,
                 photo_log, call, response, result, invoked>>

\* the first add_conversation
LogInput(c) ==
  /\ pc[c] = "log_input"
  /\ conversations' =
       Append(conversations,
              conversation_row(call[c].current_user, call[c].text, call[c].language,
                               call[c].intent.type, None, None,
                               call[c].intent.confidence))
  /\ pc' = [pc EXCEPT ![c] = "dispatch"]
  /\ UNCHANGED <<heard, intent, permission, patrolVars, motionVars, people, motion_log, photo_log,
                 call, response, result, invoked>>

\* the failure of the first add_conversation goes unnoticed: the call goes on
LogInputFailsUnnoticed(c) ==
  /\ pc[c] = "log_input"
  /\ pc' = [pc EXCEPT ![c] = "dispatch"]
  /\ UNCHANGED <<heard, intent, permission, patrolVars, motionVars, people, conversations, motion_log,
                 photo_log, call, response, result, invoked>>

\* the first add_conversation raises (sqlite3 error)
LogInputFails(c) ==
  /\ pc[c] = "log_input"
  /\ Finish(c, handle_exception(call[c].language))
  /\ UNCHANGED <<heard, intent, permission, patrolVars, motionVars, people, conversations, motion_log,
                 photo_log, call, response, invoked>>

\* a handler that keeps its return value in a field of the TaskManager all
\* calls share
RespondShared(c, handler, value) ==
  /\ invoked' = [invoked EXCEPT ![c] = handler]
  /\ response' = [k \in DOMAIN response |-> value]
  /\ pc' = [pc EXCEPT ![c] = "log_response"]
  /\ UNCHANGED <<heard, intent, permission, patrolVars, motionVars, people, conversations, call, result>>

\* the handler returned
Respond(c, handler, value) ==
  /\ invoked' = [invoked EXCEPT ![c] = handler]
  /\ response' = [response EXCEPT ![c] = value]
  /\ pc' = [pc EXCEPT ![c] = "log_response"]
  /\ UNCHANGED <<heard, intent, permission, patrolVars, motionVars, people, conversations, call, result>>

Dispatched(c, handler) ==
  /\ pc[c] = "dispatch"
  /\ handler_of(call[c].intent.type) = handler

handle_greeting(c) ==
  LET current_user == call[c].current_user
      user_info == get_user_preferences(current_user)
  IN  /\ Dispatched(c, "_handle_greeting")
      /\ Respond(c, "_handle_greeting",
                 IF current_user # None
                 THEN greeting_known(Get(user_info, "role", "friend"),
                                     Get(user_info, "language_preference", "bn"),
                                     current_user)
                 ELSE greeting_general(call[c].intent.language))
      /\ UNCHANGED <<motion_log, photo_log>>

handle_question(c) ==
  /\ Dispatched(c, "_handle_question")
  /\ Respond(c, "_handle_question", get_response(call[c].intent.language))
  /\ UNCHANGED <<motion_log, photo_log>>

handle_entertainment(c) ==
  LET current_user == call[c].current_user
      language == call[c].intent.language
  IN  /\ Dispatched(c, "_handle_entertainment")
      /\ \E content_type \in ContentTypes :
           Respond(c, "_handle_entertainment",
                   IF current_user # None /\ role_of(current_user) = "principal"
                     THEN get_professional_content(language)
                   ELSE IF current_user # None /\ role_of(current_user) = "student"
                     THEN get_student_content(content_type, language)
                   ELSE get_general_content(content_type, language))
      /\ UNCHANGED <<motion_log, photo_log>>

handle_camera_capture(c) ==
  LET language == call[c].intent.language
      target == Get(call[c].intent.parameters, "target", "general")
  IN  /\ Dispatched(c, "_handle_camera_capture")
      /\ \/ \* CameraManager(), FaceRecognizer() or VisionTasks() raises
            /\ Respond(c, "_handle_camera_capture", get_error_response(language))
            /\ UNCHANGED photo_log
         \/ \* take_selfie() or take_photo() is called: a path, or None
            \E photo_path \in {PhotoPath, None} :
              /\ photo_log' = Append(photo_log,
                                     [capture |-> IF target = "self" THEN "take_selfie"
                                                                     ELSE "take_photo",
                                      current_user |-> call[c].current_user,
                                      role |-> role_of(call[c].current_user)])
              /\ Respond(c, "_handle_camera_capture",
                         IF target = "self"
                         THEN selfie_response(language, photo_path)
                         ELSE photo_response(language, photo_path))
      /\ UNCHANGED motion_log

handle_movement(c) ==
  LET current_user == call[c].current_user
      language == call[c].intent.language
      direction == Get(call[c].intent.parameters, "direction", "")
  IN  /\ Dispatched(c, "_handle_movement")
      /\ IF current_user # None /\ role_of(current_user) \notin movement_roles
         THEN /\ Respond(c, "_handle_movement", movement_refusal(language))
              /\ UNCHANGED motion_log
         ELSE \/ \* the method of a new MotionController is called
                 /\ motion_log' = Append(motion_log,
                                         [command |-> motion_command(direction),
                                          current_user |-> current_user,
                                          role |-> role_of(current_user)])
                 /\ Respond(c, "_handle_movement", movement_done(language, direction))
              \/ \* importing or constructing MotionController raises
                 /\ Respond(c, "_handle_movement", get_error_response(language))
                 /\ UNCHANGED motion_log
      /\ UNCHANGED photo_log

handle_search(c) ==
  LET language == call[c].intent.language
      query == Get(call[c].intent.parameters, "query", <<>>)
  IN  /\ Dispatched(c, "_handle_search")
      /\ IF query = <<>>
         THEN Respond(c, "_handle_search", search_ask_query(language))
         ELSE \/ \* results, summarized
                 Respond(c, "_handle_search", get_response(language))
              \/ \* no results
                 Respond(c, "_handle_search", search_nothing_found(language, query))
              \/ \* WebSearcher raises
                 Respond(c, "_handle_search", get_error_response(language))
      /\ UNCHANGED <<motion_log, photo_log>>

handle_unknown(c) ==
  /\ Dispatched(c, "_handle_unknown")
  /\ Respond(c, "_handle_unknown", unknown_response(call[c].intent.language))
  /\ UNCHANGED <<motion_log, photo_log>>

\* Where a handler can raise into handle_intent: a read of memory.db for a
\* named user (greeting, question, entertainment, movement), or an import or
\* a constructor outside the handler's own try (question, entertainment,
\* camera capture).
can_raise(handler, current_user) ==
  \/ handler \in {"_handle_question", "_handle_entertainment", "_handle_camera_capture"}
  \/ handler \in {"_handle_greeting", "_handle_movement"} /\ current_user # None

HandlerRaises(c) ==
  /\ pc[c] = "dispatch"
  /\ can_raise(handler_of(call[c].intent.type), call[c].current_user)
  /\ invoked' = [invoked EXCEPT ![c] = handler_of(call[c].intent.type)]
  /\ Finish(c, handle_exception(call[c].language))
  /\ UNCHANGED <<heard, intent, permission, patrolVars, motionVars, people, conversations, motion_log,
                 photo_log, call, response>>

\* if response: the second add_conversation; return response
LogResponse(c) ==
  /\ pc[c] = "log_response"
  /\ conversations' =
       IF Truthy(response[c])
       THEN Append(conversations,
                   conversation_row(call[c].current_user, call[c].text,
                                    call[c].language, call[c].intent.type,
                                    response[c], call[c].language,
                                    call[c].intent.confidence))
       ELSE conversations
  /\ Finish(c, return_response(response[c]))
  /\ UNCHANGED <<heard, intent, permission, patrolVars, motionVars, people, motion_log, photo_log,
                 call, response, invoked>>

\* the second add_conversation raises
LogResponseFails(c) ==
  /\ pc[c] = "log_response"
  /\ Truthy(response[c])
  /\ Finish(c, handle_exception(call[c].language))
  /\ UNCHANGED <<heard, intent, permission, patrolVars, motionVars, people, conversations, motion_log,
                 photo_log, call, response, invoked>>

\* MemoryManager.add_person: name is UNIQUE in people
add_person(name, role, language_preference) ==
  /\ name \notin DOMAIN people
  /\ people' = people @@ (name :> [role |-> role,
                                   language_preference |-> language_preference])
  /\ UNCHANGED <<heard, intent, permission, patrolVars, motionVars, conversations, motion_log, photo_log,
                 pc, call, response, result, invoked>>

InitDispatch ==
  /\ people = EmptyMap
  /\ conversations = <<>>
  /\ motion_log = <<>>
  /\ photo_log = <<>>
  /\ pc = [c \in Calls |-> "idle"]
  /\ call = [c \in Calls |-> NoCall]
  /\ response = [c \in Calls |-> None]
  /\ result = [c \in Calls |-> NoResult]
  /\ invoked = [c \in Calls |-> None]

dispatchVars == <<people, conversations, motion_log, photo_log,
                  pc, call, response, result, invoked>>

-----------------------------------------------------------------------------
(* SchoolRoleManager: patrols.  A timestamp in last_patrol is kept by its  *)
(* rank among the timestamps the routes hold (1 is the oldest, 0 stands    *)
(* for None): the program only compares them, in _select_patrol_route.     *)
(* The patrol records _save_patrol_record appends to the day's report file *)
(* are read by nothing else and are left out.                              *)

\* last_patrol of a route that was never patrolled
Never == 0

initialize_patrol_routes ==
  << [name |-> "Main Corridor", priority |-> "high",   last_patrol |-> Never],
     [name |-> "Library Area",  priority |-> "medium", last_patrol |-> Never],
     [name |-> "Playground",    priority |-> "medium", last_patrol |-> Never],
     [name |-> "Cafeteria",     priority |-> "low",    last_patrol |-> Never] >>

\* self.patrol_routes: the routes, each with its last_patrol of the moment
patrol_routes ==
  [i \in 1..Len(initialize_patrol_routes) |->
     [initialize_patrol_routes[i] EXCEPT !.last_patrol = last_patrol[i]]]

\* the object has no attribute current_route before its first patrol
NoAttribute == "no attribute"

\* route_name: left out, empty, a route, or a name no route has
RouteNameArgs ==
  {None, "", "Main Corridor", "Library Area", "Playground", "Cafeteria", "Gym"}

NoPatrolCall == [op |-> None, route_name |-> None, returned |-> FALSE]

\* key=lambda r: (r['priority'] == 'high', r['last_patrol'] is None,
\*                r['last_patrol'] or '')
route_key(r) ==
  << IF r.priority = "high" THEN 1 ELSE 0,
     IF r.last_patrol = Never THEN 1 ELSE 0,
     r.last_patrol >>

\* the order of two keys (tuples)
KeyGT(a, b) ==
  \/ a[1] > b[1]
  \/ a[1] = b[1] /\ a[2] > b[2]
  \/ a[1] = b[1] /\ a[2] = b[2] /\ a[3] > b[3]

\* sorted(self.patrol_routes, key=..., reverse=True)[0]: the first route of
\* the greatest key (the sort is stable)
select_patrol_route(routes) ==
  LET i == CHOOSE i \in 1..Len(routes) :
             /\ \A j \in 1..Len(routes) :
                  ~KeyGT(route_key(routes[j]), route_key(routes[i]))
             /\ \A j \in 1..(i - 1) :
                  KeyGT(route_key(routes[i]), route_key(routes[j]))
  IN  routes[i]

\* route['last_patrol'] = datetime.now().isoformat() for the first route of
\* the name: it holds the newest timestamp now
stamp_last_patrol(routes, name) ==
  LET i == CHOOSE i \in 1..Len(routes) :
             /\ routes[i].name = name
             /\ \A j \in 1..(i - 1) : routes[j].name # name
      old == routes[i].last_patrol
      others == Cardinality({j \in 1..Len(routes) :
                               j # i /\ routes[j].last_patrol # Never})
  IN  [j \in 1..Len(routes) |->
         IF j = i THEN [routes[j] EXCEPT !.last_patrol = others + 1]
         ELSE IF old # Never /\ routes[j].last_patrol > old
              THEN [routes[j] EXCEPT !.last_patrol = @ - 1]
              ELSE routes[j]]

\* start_patrol without the test of patrol_status
start_patrol_while_active(route_name) ==
  LET found == {i \in 1..Len(patrol_routes) : patrol_routes[i].name = route_name}
      refused == Truthy(route_name) /\ found = {}
      route == IF Truthy(route_name)
               THEN patrol_routes[CHOOSE i \in found : \A j \in found : i <= j]
               ELSE select_patrol_route(patrol_routes)
  IN  /\ patrol_call' = [op |-> "start_patrol", route_name |-> route_name,
                         returned |-> ~refused]
      /\ IF refused
         THEN UNCHANGED <<patrol_status, current_route>>
         ELSE /\ patrol_status' = "active"
              /\ current_route' = route.name
      /\ UNCHANGED <<last_patrol, heard, intent, permission, dispatchVars, motionVars>>

start_patrol(route_name) ==
  LET found == {i \in 1..Len(patrol_routes) : patrol_routes[i].name = route_name}
      refused == \/ patrol_status = "active"
                 \/ Truthy(route_name) /\ found = {}
      route == IF Truthy(route_name)
               THEN patrol_routes[CHOOSE i \in found : \A j \in found : i <= j]
               ELSE select_patrol_route(patrol_routes)
  IN  /\ patrol_call' = [op |-> "start_patrol", route_name |-> route_name,
                         returned |-> ~refused]
      /\ IF refused
         THEN UNCHANGED <<patrol_status, current_route>>
         ELSE /\ patrol_status' = "active"
              /\ current_route' = route.name
      /\ UNCHANGED <<last_patrol, heard, intent, permission, dispatchVars, motionVars>>

end_patrol ==
  LET refused == patrol_status # "active"
  IN  /\ patrol_call' = [op |-> "end_patrol", route_name |-> None,
                         returned |-> ~refused]
      /\ IF refused
         THEN UNCHANGED <<patrol_status, current_route, last_patrol>>
         ELSE /\ last_patrol' =
                   [i \in 1..Len(patrol_routes) |->
                      stamp_last_patrol(patrol_routes, current_route)[i].last_patrol]
              /\ patrol_status' = "idle"
              /\ current_route' = None
      /\ UNCHANGED <<heard, intent, permission, dispatchVars, motionVars>>

InitPatrol ==
  /\ patrol_status = "idle"
  /\ current_route = NoAttribute
  /\ last_patrol = [i \in 1..Len(initialize_patrol_routes) |->
                      initialize_patrol_routes[i].last_patrol]
  /\ patrol_call = NoPatrolCall

-----------------------------------------------------------------------------
(* MotionController: the wheel movements.  A movement runs in a thread of  *)
(* _movement_worker; the methods take no lock, so a call can be made while *)
(* a call of stop waits in join.  Time is not kept: the duration of a      *)
(* movement and the timeout of join can run out at any moment.  A thread   *)
(* can always be started.                                                  *)

\* how many worker threads can be alive at a time
MaxWorkers == 2

Workers == 1..MaxWorkers

\* movement_thread before the first movement
NoThread == 0

\* MovementType of move_forward, move_backward, turn_left, turn_right
MovementTypes == {"forward", "backward", "turn_left", "turn_right"}

\* no thread of this number is alive
NoWorker == [pc |-> "none", movement_type |-> None]

NoMotionCall == [op |-> None, returned |-> FALSE]

\* _execute_movement(movement_type): the new thread takes the first free number
execute_movement(movement_type) ==
  IF is_moving \/ emergency_stop
  THEN /\ motion_call' = [op |-> movement_type, returned |-> FALSE]
       /\ UNCHANGED <<is_moving, current_movement, movement_thread, emergency_stop,
                      worker, stop_pc, heard, intent, permission, dispatchVars, patrolVars>>
  ELSE \E w \in Workers :
         /\ worker[w] = NoWorker
         /\ \A v \in 1..(w - 1) : worker[v] # NoWorker
         /\ is_moving' = TRUE
         /\ current_movement' = movement_type
         /\ movement_thread' = w
         /\ worker' = [worker EXCEPT ![w] = [pc |-> "started", movement_type |-> movement_type]]
         /\ motion_call' = [op |-> movement_type, returned |-> TRUE]
         /\ UNCHANGED <<emergency_stop, stop_pc, heard, intent, permission, dispatchVars, patrolVars>>

\* _movement_worker: self._send_motor_command(movement_type.value, speed)
worker_drives(w) ==
  /\ worker[w].pc = "started"
  /\ worker' = [worker EXCEPT ![w].pc = "driving"]
  /\ UNCHANGED <<is_moving, current_movement, movement_thread, emergency_stop,
                 stop_pc, motion_call, heard, intent, permission, dispatchVars, patrolVars>>

\* the while loop ends: the duration is over, or emergency_stop was read true
worker_leaves_loop(w) ==
  /\ worker[w].pc = "driving"
  /\ worker' = [worker EXCEPT ![w].pc = "stopping"]
  /\ UNCHANGED <<is_moving, current_movement, movement_thread, emergency_stop,
                 stop_pc, motion_call, heard, intent, permission, dispatchVars, patrolVars>>

\* self._send_motor_command('stop')
worker_stops_motors(w) ==
  /\ worker[w].pc = "stopping"
  /\ worker' = [worker EXCEPT ![w].pc = "finally"]
  /\ UNCHANGED <<is_moving, current_movement, movement_thread, emergency_stop,
                 stop_pc, motion_call, heard, intent, permission, dispatchVars, patrolVars>>

\* finally: self.is_moving = False; self.current_movement = None
worker_finally(w) ==
  /\ worker[w].pc = "finally"
  /\ is_moving' = FALSE
  /\ current_movement' = None
  /\ worker' = [worker EXCEPT ![w] = NoWorker]
  /\ UNCHANGED <<movement_thread, emergency_stop, stop_pc, motion_call,
                 heard, intent, permission, dispatchVars, patrolVars>>

\* stop(), up to the join of the movement thread
stop_begins ==
  /\ stop_pc = "idle"
  /\ emergency_stop' = TRUE
  /\ is_moving' = FALSE
  /\ IF movement_thread # NoThread
     THEN stop_pc' = "join" /\ UNCHANGED motion_call
     ELSE stop_pc' = "idle" /\ motion_call' = [op |-> "stop", returned |-> TRUE]
  /\ UNCHANGED <<current_movement, movement_thread, worker,
                 heard, intent, permission, dispatchVars, patrolVars>>

\* join(timeout=1.0) returns, the thread ended or not; stop() returns True
stop_returns ==
  /\ stop_pc = "join"
  /\ stop_pc' = "idle"
  /\ motion_call' = [op |-> "stop", returned |-> TRUE]
  /\ UNCHANGED <<is_moving, current_movement, movement_thread, emergency_stop,
                 worker, heard, intent, permission, dispatchVars, patrolVars>>

reset_emergency_stop ==
  /\ emergency_stop' = FALSE
  /\ motion_call' = [op |-> "reset_emergency_stop", returned |-> TRUE]
  /\ UNCHANGED <<is_moving, current_movement, movement_thread, worker, stop_pc,
                 heard, intent, permission, dispatchVars, patrolVars>>

InitMotion ==
  /\ is_moving = FALSE
  /\ current_movement = None
  /\ movement_thread = NoThread
  /\ emergency_stop = FALSE
  /\ worker = [w \in Workers |-> NoWorker]
  /\ stop_pc = "idle"
  /\ motion_call = NoMotionCall

Init ==
  /\ heard = NoUtterance
  /\ intent = NoIntent
  /\ permission = NoPermission
  /\ InitDispatch
  /\ InitPatrol
  /\ InitMotion

Next ==
  \/ \E c \in Calls :
       \/ CallHandleIntent(c)
       \/ ProcessSpeechInput(c)
       \/ LogInput(c)
       \/ LogInputFails(c)
       \/ handle_greeting(c)
       \/ handle_question(c)
       \/ handle_entertainment(c)
       \/ handle_camera_capture(c)
       \/ handle_movement(c)
       \/ handle_search(c)
       \/ handle_unknown(c)
       \/ HandlerRaises(c)
       \/ LogResponse(c)
       \/ LogResponseFails(c)
  \/ \E name \in Names, role \in Roles, language_preference \in Languages :
       add_person(name, role, language_preference)

Spec == Init /\ [][Next]_vars

-----------------------------------------------------------------------------
(* SpecIntent: the recognizer alone, called on one utterance after another *)
(* (quick_start.py, test_system.py).                                       *)

Listen(text, language) ==
  /\ heard = NoUtterance
  /\ heard' = [text |-> text, language |-> language]
  /\ intent' = NoIntent
  /\ UNCHANGED <<permission, patrolVars, motionVars, dispatchVars>>

Recognize ==
  /\ heard # NoUtterance
  /\ intent = NoIntent
  /\ intent' = recognize(heard.text, heard.language)
  /\ UNCHANGED <<heard, permission, patrolVars, motionVars, dispatchVars>>

\* the caller is done with the Intent and listens again
NextUtterance ==
  /\ intent # NoIntent
  /\ heard' = NoUtterance
  /\ intent' = NoIntent
  /\ UNCHANGED <<permission, patrolVars, motionVars, dispatchVars>>

NextIntent ==
  \/ \E text \in InputTexts, language \in Languages : Listen(text, language)
  \/ Recognize
  \/ NextUtterance

SpecIntent == Init /\ [][NextIntent]_vars

-----------------------------------------------------------------------------
(* SpecConcurrent: two calls of handle_intent in flight at once, on one    *)
(* TaskManager and one memory.db (a second thread calls it while the       *)
(* listening thread's call is still running).  The steps of the two calls  *)
(* interleave freely; a row is inserted in one sqlite transaction.         *)

ConcurrentCalls == {1, 2}

\* the Intents of the concurrent calls: a handler that reads people, one that
\* checks the role and moves the robot, one that does neither
ConcurrentIntents ==
  UNION {{IntentOf(GREETING, One, EmptyMap, l),
          IntentOf(MOVEMENT, One, "direction" :> "forward", l),
          IntentOf(UNKNOWN, Zero, EmptyMap, l)} : l \in Languages}

\* the people table the calls find: empty, or holding the one person, as a
\* student or as a teacher
ConcurrentPeople ==
  {EmptyMap} \cup
  {n :> [role |-> "student", language_preference |-> "bn"] : n \in Names} \cup
  {n :> [role |-> "teacher", language_preference |-> "en"] : n \in Names}

InitConcurrent ==
  /\ heard = NoUtterance
  /\ intent = NoIntent
  /\ permission = NoPermission
  /\ people \in ConcurrentPeople
  /\ conversations = <<>>
  /\ motion_log = <<>>
  /\ photo_log = <<>>
  /\ pc = [c \in ConcurrentCalls |-> "idle"]
  /\ call = [c \in ConcurrentCalls |-> NoCall]
  /\ response = [c \in ConcurrentCalls |-> None]
  /\ result = [c \in ConcurrentCalls |-> NoResult]
  /\ invoked = [c \in ConcurrentCalls |-> None]
  /\ InitPatrol
  /\ InitMotion

CallConcurrently(c) ==
  \E i \in ConcurrentIntents, u \in Users :
     Enter(c, i, i.original_text, i.language, u)

NextConcurrent ==
  \E c \in ConcurrentCalls :
     \/ CallConcurrently(c)
     \/ LogInput(c)
     \/ LogInputFails(c)
     \/ handle_greeting(c)
     \/ handle_movement(c)
     \/ handle_unknown(c)
     \/ HandlerRaises(c)
     \/ LogResponse(c)
     \/ LogResponseFails(c)

SpecConcurrent == InitConcurrent /\ [][NextConcurrent]_vars

-----------------------------------------------------------------------------
(* SpecPermission: SchoolRoleManager.check_permission alone, called with   *)
(* one role and action after another.                                      *)

\* the roles of the table, 'friend' (the default role of people) and a role
\* no table names
PermissionRoles == Roles \cup {"visitor"}

\* the actions the table names, and two it does not
PermissionActions ==
  UNION {role_permissions[r] : r \in DOMAIN role_permissions} \cup {"move", ""}

\* check_permission(user_role, action) is called
CallCheckPermission(user_role, action) ==
  /\ permission.returned
  /\ permission' = [user_role |-> user_role, action |-> action,
                    returned |-> FALSE, granted |-> FALSE]
  /\ UNCHANGED <<heard, intent, dispatchVars, patrolVars, motionVars>>

\* it returns; self.role_permissions is read, nothing is written
CheckPermissionReturns ==
  /\ ~permission.returned
  /\ permission' = [permission EXCEPT
                      !.returned = TRUE,
                      !.granted = check_permission(permission.user_role,
                                                   permission.action)]
  /\ UNCHANGED <<heard, intent, dispatchVars, patrolVars, motionVars>>

NextPermission ==
  \/ \E user_role \in PermissionRoles, action \in PermissionActions :
       CallCheckPermission(user_role, action)
  \/ CheckPermissionReturns

SpecPermission == Init /\ [][NextPermission]_vars

-----------------------------------------------------------------------------
(* SpecPatrol: start_patrol and end_patrol called on one SchoolRoleManager, *)
(* in any order.  SpecPatrolFair: the caller keeps calling start_patrol()  *)
(* and end_patrol(), each again and again.                                 *)

NextPatrol ==
  \/ \E route_name \in RouteNameArgs : start_patrol(route_name)
  \/ end_patrol

SpecPatrol == Init /\ [][NextPatrol]_vars

SpecPatrolFair ==
  /\ SpecPatrol
  /\ WF_vars(start_patrol(None))
  /\ WF_vars(end_patrol)

-----------------------------------------------------------------------------
(* SpecMotion: the movement methods, stop and reset_emergency_stop called  *)
(* on one MotionController, interleaved with the steps of its workers.     *)

NextMotion ==
  \/ \E movement_type \in MovementTypes : execute_movement(movement_type)
  \/ stop_begins
  \/ stop_returns
  \/ reset_emergency_stop
  \/ \E w \in Workers :
       \/ worker_drives(w)
       \/ worker_leaves_loop(w)
       \/ worker_stops_motors(w)
       \/ worker_finally(w)

SpecMotion == Init /\ [][NextMotion]_vars

-----------------------------------------------------------------------------
(* The claims about the recognizer (SpecIntent).                           *)

\* the text recognize works on, and the confidence of each kind for it
NormalizedText == Strip(Lower(heard.text))

KindConfidence(kind) ==
  calculate_confidence(NormalizedText, patterns_for(heard.language)[kind])

CatalogKinds ==
  {GREETING, QUESTION, ENTERTAINMENT, CAMERA_CAPTURE, MOVEMENT, SEARCH}

NoPatternScored ==
  \A kind \in CatalogKinds :
    \A j \in 1..Len(patterns_for(heard.language)[kind]) :
      pattern_confidence(NormalizedText, patterns_for(heard.language)[kind][j]) = Zero

IsBestKind(kind) ==
  /\ kind \in CatalogKinds
  /\ \A other \in CatalogKinds : FracGE(KindConfidence(kind), KindConfidence(other))

ActionThreshold == Frac(6, 10)

Recognized == intent # NoIntent

\* C5: recognize returns kind Unknown exactly when no pattern of any kind
\* scored above 0, and then confidence is 0 and parameters is empty; otherwise
\* the kind is one of maximal confidence, and the Intent carries that
\* confidence, also below the threshold.
C5_UnknownIffNothingScored ==
  Recognized =>
    /\ (intent.type = UNKNOWN) <=> NoPatternScored
    /\ intent.type = UNKNOWN =>
         intent.confidence = Zero /\ intent.parameters = EmptyMap
    /\ intent.type # UNKNOWN =>
         IsBestKind(intent.type) /\ intent.confidence = KindConfidence(intent.type)

\* a text that is not empty is recognized as Unknown
C5_Witness ==
  Recognized /\ intent.type = UNKNOWN /\ NormalizedText # <<>>

\* C6: the confidence of the Intent recognize returns lies in [0,1].
C6_ConfidenceInUnitInterval ==
  Recognized => FracGE(intent.confidence, Zero) /\ FracGE(One, intent.confidence)

\* C7: below the threshold 0.6 the parameters are empty, and the kind is still
\* the best-scoring kind; parameters are populated only at or above 0.6.
C7_ParametersOnlyAtThreshold ==
  Recognized =>
    /\ ~FracGE(intent.confidence, ActionThreshold) => intent.parameters = EmptyMap
    /\ intent.parameters # EmptyMap => FracGE(intent.confidence, ActionThreshold)
    /\ FracGT(intent.confidence, Zero) => IsBestKind(intent.type)

\* a weak Movement match of a text that names a direction
C7_Witness ==
  /\ Recognized
  /\ intent.type = MOVEMENT
  /\ FracGT(intent.confidence, Zero)
  /\ ~FracGE(intent.confidence, ActionThreshold)
  /\ extract_parameters(NormalizedText, MOVEMENT, heard.language) # EmptyMap

\* the catalog order the tie-break is stated for
CatalogOrder ==
  <<GREETING, QUESTION, ENTERTAINMENT, CAMERA_CAPTURE, MOVEMENT, SEARCH>>

CatalogPosition(kind) == CHOOSE p \in 1..Len(CatalogOrder) : CatalogOrder[p] = kind

\* C8: among the kinds of maximal confidence recognize returns the first in
\* the order Greeting, Question, Entertainment, CameraCapture, Movement,
\* Search, in both languages: every kind before the returned one scored
\* strictly less, and no kind scored more.
C8_TieKeepsFirstInCatalogOrder ==
  Recognized /\ intent.type # UNKNOWN =>
    /\ IsBestKind(intent.type)
    /\ \A p \in 1..(CatalogPosition(intent.type) - 1) :
         FracGT(intent.confidence, KindConfidence(CatalogOrder[p]))

\* a Bangla text for which Question and Entertainment tie at the maximum
C8_Witness ==
  /\ Recognized
  /\ heard.language = "bn"
  /\ intent.type = QUESTION
  /\ KindConfidence(ENTERTAINMENT) = intent.confidence

\* "weather in Dhaka"
WeatherInDhaka ==
  <<"w","e","a","t","h","e","r"," ","i","n"," ","D","h","a","k","a">>

\* C9: "search for weather in Dhaka" in English is recognized as Search, and
\* with confidence at least 0.6 its query is "weather in Dhaka".
C9_SearchForWeatherInDhaka ==
  Recognized /\ heard.text = SearchForWeatherInDhaka /\ heard.language = "en" =>
    /\ intent.type = SEARCH
    /\ FracGE(intent.confidence, ActionThreshold) =>
         /\ "query" \in DOMAIN intent.parameters
         /\ intent.parameters["query"] = WeatherInDhaka

-----------------------------------------------------------------------------
(* The claims about handle_intent (Spec).                                  *)

Returned(c) == pc[c] = "done"

\* the call ended in the except clause of handle_intent
EndedInExcept(c) ==
  Returned(c) /\ result[c].value = get_error_response(call[c].language)

\* C1: whatever the Intent and whatever the handler does (returns a string,
\* raises, refuses), handle_intent returns a string that is not empty, and
\* does not raise.
C1_ReturnsNonEmptyString ==
  \A c \in Calls :
    Returned(c) =>
      /\ result[c].kind = "return"
      /\ result[c].value \in STRING
      /\ result[c].value # None
      /\ result[c].value # ""

\* a call that returned although its handler raised after the input was logged
C1_Witness ==
  \E c \in Calls :
    /\ Returned(c)
    /\ response[c] = None
    /\ Len(conversations) = call[c].rows_before + 1

MovementByStudent(c) ==
  /\ call[c] # NoCall
  /\ call[c].intent.type = MOVEMENT
  /\ call[c].current_user # None
  /\ role_of(call[c].current_user) = "student"

C3_MotionOnlyForAuthorizedRole ==
  /\ \A i \in 1..Len(motion_log) : motion_log[i].role \in {"principal", "teacher", "admin"}
  /\ \A c \in Calls :
       /\ call[c] # NoCall
       /\ call[c].intent.type = MOVEMENT
       /\ role_of(call[c].current_user) \notin {"principal", "teacher", "admin"}
       /\ Returned(c) /\ ~EndedInExcept(c)
       => result[c].value = movement_refusal(call[c].intent.language)

\* C4: a photo is captured only for a caller whose role holds take_photos in
\* the permission table (teacher, principal, and admin by its wildcard).
C4_CaptureOnlyWithTakePhotos ==
  \A i \in 1..Len(photo_log) : check_permission(photo_log[i].role, "take_photos")

\* the caller is not a known user: no name, or a name people does not hold
HelloScenario(c) ==
  /\ call[c] # NoCall
  /\ call[c].text = HelloHowAreYou
  /\ call[c].language = "en"
  /\ call[c].current_user \notin DOMAIN people

\* the rows the call has appended to conversations
RowsOfCall(c) == SubSeq(conversations, call[c].rows_before + 1, Len(conversations))

\* C10: for "Hello, how are you?" in English from a caller that is not a known
\* user, the Intent is a Greeting, handle_intent returns the general greeting,
\* and the call appends exactly two rows, the first without and the second
\* with the response, both with intent_type greeting.  (Calls that ended in
\* the except clause are left aside.)
C10_HelloFromUnknownUser ==
  \A c \in Calls :
    HelloScenario(c) =>
      /\ call[c].intent.type = GREETING
      /\ Returned(c) /\ ~EndedInExcept(c) =>
           /\ result[c].value = greeting_general("en")
           /\ Len(RowsOfCall(c)) = 2
           /\ RowsOfCall(c)[1].response_text = None
           /\ RowsOfCall(c)[2].response_text = result[c].value
           /\ \A i \in 1..2 : RowsOfCall(c)[i].intent_type = GREETING

-----------------------------------------------------------------------------
(* The claim about check_permission (SpecPermission).                      *)

PermissionReturned == permission # NoPermission /\ permission.returned

\* the roles the permission table has an entry for
TableRoles == {"student", "teacher", "principal", "admin"}

\* C20: check_permission(role, action) returns false for every role without
\* an entry in the permission table, true for every action when the role
\* holds the wildcard (admin), and otherwise true exactly when the action is
\* in the role's capability set; a call of it changes no state of the program.
C20_CheckPermissionPureTotal ==
  /\ [](PermissionReturned =>
          permission.granted =
            (IF permission.user_role \notin TableRoles THEN FALSE
             ELSE IF permission.user_role = "admin" THEN TRUE
             ELSE permission.action \in role_permissions[permission.user_role]))
  /\ [][permission' # permission =>
          UNCHANGED <<people, conversations, motion_log, photo_log, pc, call,
                      response, result, invoked, heard, intent, patrolVars>>]_vars

\* admin was granted an action no capability set names
C20_Witness ==
  /\ PermissionReturned
  /\ permission.user_role = "admin"
  /\ permission.action = "move"
  /\ permission.granted

-----------------------------------------------------------------------------
(* The claims about the two Exchange rows and the failure string (Spec).   *)

\* one of the call's two add_conversation raised
StoreFailed(c) ==
  /\ Returned(c)
  /\ \/ Len(RowsOfCall(c)) = 0
     \/ response[c] # None /\ Len(RowsOfCall(c)) = 1

\* the handler of the call raised into handle_intent
HandlerFailed(c) == Returned(c) /\ invoked[c] # None /\ response[c] = None

\* C11: by the time a handle_intent call returns it has appended a second row
\* whose response_text is the returned string and whose response_language is
\* the call's language, on every exit path: the handler returned, permission
\* was denied, the handler raised.  (Calls in which the store itself raised
\* are left aside.)
C11_SecondExchangeOnEveryExit ==
  \A c \in Calls :
    Returned(c) /\ ~StoreFailed(c) =>
      /\ Len(RowsOfCall(c)) = 2
      /\ RowsOfCall(c)[2].response_text = result[c].value
      /\ RowsOfCall(c)[2].response_language = call[c].language

\* a handler has been called, has returned, or has raised
HandlerEntered(c) ==
  \/ pc[c] \in {"dispatch", "log_response"}
  \/ Returned(c) /\ invoked[c] # None

\* C12: the pre-response row (response_text absent, intent_type and confidence
\* copied from the Intent) is appended before the handler is invoked: whenever
\* a handler is about to run, runs or has run, the call's first row is in
\* conversations.
C12_InputLoggedBeforeHandler ==
  \A c \in Calls :
    HandlerEntered(c) =>
      /\ Len(RowsOfCall(c)) >= 1
      /\ RowsOfCall(c)[1].response_text = None
      /\ RowsOfCall(c)[1].response_language = None
      /\ RowsOfCall(c)[1].input_text = call[c].text
      /\ RowsOfCall(c)[1].intent_type = call[c].intent.type
      /\ RowsOfCall(c)[1].confidence = call[c].intent.confidence

\* a handler has issued a motion command and only the first row is logged
C12_Witness ==
  \E c \in Calls :
    /\ pc[c] = "log_response"
    /\ invoked[c] = "_handle_movement"
    /\ motion_log # <<>>
    /\ Len(RowsOfCall(c)) = 1

\* C13: when the selected handler raises, handle_intent returns exactly the
\* generic failure string of the call's language (the Bangla text for 'bn',
\* the English text otherwise), never the error's own message.
C13_HandlerFailureString ==
  \A c \in Calls :
    HandlerFailed(c) =>
      /\ result[c].kind = "return"
      /\ result[c].value =
           (IF call[c].language = "bn"
            THEN "bn: Sorry, there was a problem. Try again."
            ELSE "Sorry, something went wrong. Please try again.")

\* a handler raised in a Bangla call
C13_Witness ==
  \E c \in Calls : HandlerFailed(c) /\ call[c].language = "bn"

-----------------------------------------------------------------------------
(* The claim about weak matches (Spec).                                    *)

\* the confidence recognize computes for a kind on the text of a call
CallKindConfidence(c, kind) ==
  calculate_confidence(Strip(Lower(call[c].text)),
                       patterns_for(call[c].language)[kind])

\* the text of the call scores above 0 for some kind and below the threshold
\* for every kind
WeakText(c) ==
  /\ call[c] # NoCall
  /\ \E kind \in CatalogKinds : FracGT(CallKindConfidence(c, kind), Zero)
  /\ \A kind \in CatalogKinds : ~FracGE(CallKindConfidence(c, kind), ActionThreshold)

\* the Intent of the call is a weak match
WeakMatch(c) ==
  /\ call[c] # NoCall
  /\ call[c].intent.type \in CatalogKinds
  /\ ~FracGE(call[c].intent.confidence, ActionThreshold)

\* C14: for a weak match (a kind other than Unknown, confidence below 0.6) no
\* parameters are extracted, and handle_intent still invokes the handler
\* registered for that kind, which is given an empty parameter map.
C14_WeakMatchStillHandled ==
  \A c \in Calls :
    \* an utterance that scores weakly does not enter handle_intent as Unknown
    /\ pc[c] = "log_input" /\ call[c].text \in SpeechTexts
         /\ call[c].intent.type \notin CatalogKinds
         => ~WeakText(c)
    /\ WeakMatch(c) =>
         /\ call[c].intent.parameters = EmptyMap
         /\ invoked[c] # None => invoked[c] = "_handle_" \o call[c].intent.type
         /\ pc[c] = "log_response" => invoked[c] # None

\* "forward", recognized as a weak Movement, has reached the movement handler,
\* which found no direction
C14_Witness ==
  \E c \in Calls :
    /\ call[c] # NoCall
    /\ call[c].text = Forward
    /\ WeakMatch(c)
    /\ pc[c] = "log_response"
    /\ invoked[c] = "_handle_movement"
    /\ motion_log # <<>>
    /\ motion_log[Len(motion_log)].command = "wave_hand"

-----------------------------------------------------------------------------
(* The claim about concurrent calls (SpecConcurrent).                      *)

\* what the call returns when it runs alone on the same people table: the
\* reply of its handler, or the failure string when the store or the handler
\* raises
AloneResults(c) ==
  LET kind == call[c].intent.type
      language == call[c].intent.language
      user == call[c].current_user
      known == user \in DOMAIN people
      role == IF known THEN people[user].role ELSE "friend"
      lang_pref == IF known THEN people[user].language_preference ELSE "bn"
  IN  {get_error_response(call[c].language)} \cup
      (CASE kind = GREETING ->
              IF user = None THEN {greeting_general(language)}
              ELSE {greeting_known(role, lang_pref, user)}
         [] kind = MOVEMENT ->
              IF user # None /\ role \notin {"principal", "teacher", "admin"}
              THEN {movement_refusal(language)}
              ELSE {movement_done(language, call[c].intent.parameters["direction"]),
                    get_error_response(language)}
         [] OTHER -> {unknown_response(language)})

\* the two rows of the call
PreRow(c) ==
  conversation_row(call[c].current_user, call[c].text, call[c].language,
                   call[c].intent.type, None, None, call[c].intent.confidence)

PostRow(c) ==
  conversation_row(call[c].current_user, call[c].text, call[c].language,
                   call[c].intent.type, result[c].value, call[c].language,
                   call[c].intent.confidence)

\* the call returned its handler's reply, which is not the failure string: no
\* store operation and no handler raised
RepliedAndLogged(c) ==
  /\ pc[c] = "done"
  /\ response[c] # None
  /\ result[c].value = response[c]
  /\ result[c].value # get_error_response(call[c].language)

\* C15: in every interleaving of concurrent handle_intent calls each call
\* returns the response it would return if run alone, and the call's
\* pre-response row precedes its post-response row in conversations (rows of
\* different calls may interleave); a step of one call changes nothing of
\* the other call's arguments, response or result.
C15_ConcurrentCallsIndependent ==
  /\ [](\A c \in ConcurrentCalls :
          /\ pc[c] = "log_response" => response[c] \in AloneResults(c)
          /\ pc[c] = "done" => result[c].value \in AloneResults(c)
          /\ pc[c] \in {"dispatch", "log_response"} =>
               \E i \in (call[c].rows_before + 1)..Len(conversations) :
                  conversations[i] = PreRow(c)
          /\ RepliedAndLogged(c) =>
               \E i, j \in (call[c].rows_before + 1)..Len(conversations) :
                  /\ i < j
                  /\ conversations[i] = PreRow(c)
                  /\ conversations[j] = PostRow(c))
  /\ [][\A c, d \in ConcurrentCalls :
          c # d /\ pc'[c] # pc[c] =>
            /\ pc'[d] = pc[d]
            /\ call'[d] = call[d]
            /\ response'[d] = response[d]
            /\ result'[d] = result[d]
            /\ invoked'[d] = invoked[d]]_vars

\* both calls have returned their handlers' replies, different ones, and the
\* rows of the two calls interleave: the second call logged its input between
\* the two rows of the first
C15_Witness ==
  /\ RepliedAndLogged(1)
  /\ RepliedAndLogged(2)
  /\ result[1].value # result[2].value
  /\ Len(conversations) = 4
  /\ conversations[1] = PreRow(1)
  /\ conversations[2] = PreRow(2)
  /\ conversations[3] = PostRow(1)
  /\ conversations[4] = PostRow(2)

-----------------------------------------------------------------------------
(* The claims about the parameters of an Intent (SpecIntent).              *)

\* the Intent is of the kind and at or above the threshold
Actionable(kind) ==
  /\ Recognized
  /\ intent.type = kind
  /\ FracGE(intent.confidence, ActionThreshold)

\* the interrogative tokens of a language, a token that contains another one
\* before it, so that every token is removed as a whole
WholeTokenOrder(language) ==
  IF language = "bn"
  THEN << bangla_question_words[6], bangla_question_words[8],
          bangla_question_words[1], bangla_question_words[2],
          bangla_question_words[3], bangla_question_words[4],
          bangla_question_words[5], bangla_question_words[7] >>
  ELSE english_question_words

\* C16: for a Question at or above the threshold, topic is the normalized
\* utterance with every occurrence of every interrogative token of the
\* language removed, each token as a whole: no token and no fragment of a
\* token is left in topic.
C16_TopicWithoutInterrogatives ==
  Actionable(QUESTION) =>
    /\ "topic" \in DOMAIN intent.parameters
    /\ intent.parameters["topic"] =
         strip_question_words(NormalizedText, WholeTokenOrder(heard.language), 1)
    /\ \A i \in 1..Len(WholeTokenOrder(heard.language)) :
         ~Contains(intent.parameters["topic"], WholeTokenOrder(heard.language)[i])

\* the utterance, trimmed
Utterance == Strip(heard.text)

\* the trigger prefixes of a language, in list order
TriggerPrefixes(language) ==
  IF language = "bn" THEN bangla_search_prefixes ELSE english_search_prefixes

\* a trigger prefix occurs in the utterance, whatever the case of its letters
PrefixMatches(p) == Contains(Lower(Utterance), p)

\* t without the first occurrence of p, all other text as it is
RECURSIVE WithoutFirst(_, _)
WithoutFirst(t, p) ==
  IF t = <<>> THEN <<>>
  ELSE IF StartsWith(Lower(t), p) THEN SubSeq(t, Len(p) + 1, Len(t))
  ELSE <<Head(t)>> \o WithoutFirst(Tail(t), p)

\* C17: for a Search at or above the threshold, query is the utterance with
\* the first matching trigger prefix (in list order) removed and the remainder
\* trimmed, all other text unchanged; when no trigger prefix matches there is
\* no query key.
C17_QueryIsTextAfterPrefix ==
  Actionable(SEARCH) =>
    LET prefixes == TriggerPrefixes(heard.language)
        matching == {i \in 1..Len(prefixes) : PrefixMatches(prefixes[i])}
    IN  IF matching = {}
        THEN "query" \notin DOMAIN intent.parameters
        ELSE LET first == CHOOSE i \in matching : \A j \in matching : i <= j
             IN  /\ "query" \in DOMAIN intent.parameters
                 /\ intent.parameters["query"] =
                      Strip(WithoutFirst(Utterance, prefixes[first]))

\* the one priority order of the directions
DirectionOrder == <<"forward", "backward", "left", "right">>

\* the tokens of a direction in a language
DirectionTokens(language, direction) ==
  IF language = "bn"
  THEN CASE direction = "forward" ->
              {<<"u098f","u0997","u09bf","u09af","u09bc","u09c7">>,    \* egiye
               <<"u09b8","u09be","u09ae","u09a8","u09c7">>}            \* samne
         [] direction = "backward" -> {<<"u09aa","u09bf","u099b","u09a8","u09c7">>}
         [] direction = "left" -> {<<"u09ac","u09be","u09ae","u09c7">>}    \* bame
         [] direction = "right" -> {<<"u09a1","u09be","u09a8","u09c7">>}   \* dane
  ELSE CASE direction = "forward" -> {<<"f","o","r","w","a","r","d">>}
         [] direction = "backward" -> {<<"b","a","c","k","w","a","r","d">>,
                                       <<"b","a","c","k">>}
         [] direction = "left" -> {<<"l","e","f","t">>}
         [] direction = "right" -> {<<"r","i","g","h","t">>}

DirectionOccurs(p) ==
  \E token \in DirectionTokens(heard.language, DirectionOrder[p]) :
     Contains(NormalizedText, token)

\* C18: for a Movement at or above the threshold, direction is the first of
\* forward, backward, left, right, in that one order for English and for
\* Bangla tokens alike, whose token occurs in the utterance; when none occurs
\* there is no direction key.
C18_DirectionByOnePriorityOrder ==
  Actionable(MOVEMENT) =>
    LET occurring == {p \in 1..Len(DirectionOrder) : DirectionOccurs(p)}
    IN  IF occurring = {}
        THEN "direction" \notin DOMAIN intent.parameters
        ELSE LET first == CHOOSE p \in occurring : \A q \in occurring : p <= q
             IN  /\ "direction" \in DOMAIN intent.parameters
                 /\ intent.parameters["direction"] = DirectionOrder[first]

\* the self-referential tokens of a language
SelfTokens(language) ==
  LET words == IF language = "bn" THEN bangla_self_words ELSE english_self_words
  IN  {words[i] : i \in 1..Len(words)}

\* C19: for a CameraCapture at or above the threshold, parameters has
\* target = "self" if and only if one of the self-referential tokens is a word
\* of the utterance; without such a word there is no target key.
C19_TargetSelfIffSelfWord ==
  Actionable(CAMERA_CAPTURE) =>
    LET words == Split(NormalizedText)
        self_word == \E i \in 1..Len(words) : words[i] \in SelfTokens(heard.language)
    IN  /\ "target" \in DOMAIN intent.parameters <=> self_word
        /\ "target" \in DOMAIN intent.parameters =>
             intent.parameters["target"] = "self"

-----------------------------------------------------------------------------
(* The claim about the roles of the permission table (Spec).               *)

\* the roles in use: the role of every person of the store, and the role a
\* handler takes for the named caller of a call
RolesInUse ==
  {people[name].role : name \in DOMAIN people}
    \cup {role_of(call[c].current_user) :
            c \in {d \in Calls : call[d] # NoCall /\ call[d].current_user # None}}

\* C21: the permission table is total: every role in use (student, teacher,
\* principal, admin, and the default role friend of an absent or unknown
\* caller) has an entry in role_permissions.
C21_PermissionTableTotal == RolesInUse \subseteq DOMAIN role_permissions

-----------------------------------------------------------------------------
(* The claim about the language of the returned string (Spec).             *)

\* the string is Bangla text (see the note on the strings of the handlers)
IsBangla(s) == Len(s) >= 4 /\ SubSeq(s, 1, 4) = "bn: "

\* C22: every string handle_intent returns is in the language passed to the
\* call: Bangla text for 'bn', English text for 'en', on every exit path and
\* for every caller, known or unknown.
C22_ResponseInCallLanguage ==
  \A c \in Calls :
    Returned(c) => (IsBangla(result[c].value) <=> call[c].language = "bn")

-----------------------------------------------------------------------------
(* The claim about the routing of handle_intent (Spec).                    *)

\* the kinds with a handler of their own
RegisteredKinds == {GREETING, QUESTION, ENTERTAINMENT, CAMERA_CAPTURE, MOVEMENT, SEARCH}

\* the kinds that go to the Unknown handler
UnroutedKinds == {UNKNOWN, COMMAND, FACE_RECOGNITION}

\* C23: handle_intent hands each Intent to the handler registered for its
\* kind; an Intent of kind Unknown, or of a kind without a registered handler
\* (Command, FaceRecognition), goes to the Unknown handler, and the call
\* returns the "didn't understand" message in the Intent's language.  (Calls
\* that ended in the except clause are left aside.)
C23_RoutedByKind ==
  \A c \in Calls :
    /\ invoked[c] # None =>
         invoked[c] = IF call[c].intent.type \in RegisteredKinds
                      THEN "_handle_" \o call[c].intent.type
                      ELSE "_handle_unknown"
    /\ Returned(c) /\ ~EndedInExcept(c) /\ call[c].intent.type \in UnroutedKinds =>
         /\ invoked[c] = "_handle_unknown"
         /\ result[c].value = unknown_response(call[c].intent.language)

\* a Command was answered by the Unknown handler, in Bangla
C23_Witness ==
  \E c \in Calls :
    /\ Returned(c)
    /\ call[c].intent.type = COMMAND
    /\ call[c].intent.language = "bn"
    /\ invoked[c] = "_handle_unknown"
    /\ result[c].value = unknown_response("bn")

-----------------------------------------------------------------------------
(* The claims about single utterances (SpecIntent).                        *)

\* the utterance "hello"
Hello == <<"h","e","l","l","o">>

\* C24: recognize("hello", 'en') is an Intent of kind Greeting with
\* confidence 1.0.
C24_HelloIsGreeting ==
  Recognized /\ heard.text = Hello /\ heard.language = "en" =>
    /\ intent.type = GREETING
    /\ intent.confidence = One

\* "hello" in English was recognized
C24_Witness ==
  /\ Recognized
  /\ heard.text = Hello
  /\ heard.language = "en"
  /\ intent.type = GREETING

\* C25: recognize("chobi tulo", 'bn'), the Bangla utterance "take a picture",
\* is an Intent of kind CameraCapture.
C25_ChobiTuloIsCameraCapture ==
  Recognized /\ heard.text = ChobiTulo /\ heard.language = "bn" =>
    intent.type = CAMERA_CAPTURE

\* the Bangla utterance was recognized, with the confidence of a direct match
C25_Witness ==
  /\ Recognized
  /\ heard.text = ChobiTulo
  /\ heard.language = "bn"
  /\ intent.type = CAMERA_CAPTURE
  /\ intent.confidence = One

-----------------------------------------------------------------------------
(* The claim about the confidence of a kind (SpecIntent).                  *)

\* the words of a pattern
WordsOfPattern(pattern) == pattern_words_of(pattern)

\* the input word and some word of the pattern contain one another
Overlaps(word, pattern_words) ==
  \E j \in 1..Len(pattern_words) :
     Contains(word, pattern_words[j]) \/ Contains(pattern_words[j], word)

\* how many of the input words overlap the pattern, word by word
RECURSIVE OverlapCount(_, _)
OverlapCount(words, pattern_words) ==
  IF words = <<>> THEN 0
  ELSE (IF Overlaps(Head(words), pattern_words) THEN 1 ELSE 0)
         + OverlapCount(Tail(words), pattern_words)

\* the score of one pattern as the claim states it
PatternScore(pattern) ==
  IF re_search(pattern, NormalizedText) THEN One
  ELSE Frac(OverlapCount(Split(NormalizedText), WordsOfPattern(pattern)),
            Len(WordsOfPattern(pattern)))

\* the fraction is the maximum of the scores of the kind's patterns
IsMaxScore(fraction, kind) ==
  LET patterns == patterns_for(heard.language)[kind]
  IN  /\ \E j \in 1..Len(patterns) : PatternScore(patterns[j]) = fraction
      /\ \A j \in 1..Len(patterns) : FracGE(fraction, PatternScore(patterns[j]))

\* C26: for each kind, the confidence _calculate_confidence computes is the
\* maximum over the kind's patterns of: 1.0 when the pattern matches the
\* normalized text directly, and otherwise the number of input words that
\* contain, or are contained in, some word of the pattern (each input word
\* counted once per pattern) divided by the number of words of the pattern;
\* the Intent recognize returns carries that number for its kind.
C26_ConfidenceIsMaxPatternScore ==
  Recognized =>
    /\ \A kind \in CatalogKinds : IsMaxScore(KindConfidence(kind), kind)
    /\ intent.type # UNKNOWN => IsMaxScore(intent.confidence, intent.type)

\* an Intent whose confidence is a fraction of overlapping words: no pattern
\* of its kind matched directly
C26_Witness ==
  /\ Recognized
  /\ intent.type # UNKNOWN
  /\ intent.confidence.den > 1
  /\ \A j \in 1..Len(patterns_for(heard.language)[intent.type]) :
       ~re_search(patterns_for(heard.language)[intent.type][j], NormalizedText)

-----------------------------------------------------------------------------
(* The claim about a failure of the first add_conversation (Spec).         *)

\* the call returned and its pre-response row is not in conversations
InputAppendFailed(c) ==
  /\ Returned(c)
  /\ \/ RowsOfCall(c) = <<>>
     \/ RowsOfCall(c)[1].response_text # None

\* C28: when appending the pre-response row fails, handle_intent invokes no
\* handler, so that nothing is moved and no picture is taken, leaves no row
\* of the turn in conversations, and returns the generic failure string for
\* the language of the call.
C28_InputAppendFailure ==
  /\ [](\A c \in Calls :
          InputAppendFailed(c) =>
            /\ invoked[c] = None
            /\ RowsOfCall(c) = <<>>
            /\ result[c] = [kind |-> "return",
                            value |-> get_error_response(call[c].language)])
  /\ [][\A c \in Calls :
          pc[c] = "log_input" /\ pc'[c] = "done" =>
            UNCHANGED <<people, conversations, motion_log, photo_log>>]_vars

\* a teacher's movement command ended at the failing append, in Bangla
C28_Witness ==
  \E c \in Calls :
    /\ InputAppendFailed(c)
    /\ call[c].intent.type = MOVEMENT
    /\ call[c].current_user # None
    /\ role_of(call[c].current_user) = "teacher"
    /\ call[c].language = "bn"
    /\ result[c].value = get_error_response("bn")
    /\ motion_log = <<>>

-----------------------------------------------------------------------------
(* The claims about patrols (SpecPatrol, SpecPatrolFair).                  *)

\* the name is the name of a route
RouteExists(name) == \E i \in 1..Len(patrol_routes) : patrol_routes[i].name = name

\* C27: after any sequence of start_patrol and end_patrol calls patrol_status
\* is 'idle' or 'active'; start_patrol returns True only when the status was
\* idle and the route it names, if it names one, exists; end_patrol returns
\* True only when the status was active; a call that returns False leaves
\* patrol_status, the current route and the last_patrol of every route as
\* they were.
C27_PatrolCalls ==
  /\ [](patrol_status \in {"idle", "active"})
  /\ [][patrol_call'.op = "start_patrol" /\ patrol_call'.returned =>
          /\ patrol_status = "idle"
          /\ patrol_status' = "active"
          /\ Truthy(patrol_call'.route_name) =>
               RouteExists(patrol_call'.route_name)
                 /\ current_route' = patrol_call'.route_name]_vars
  /\ [][patrol_call'.op = "end_patrol" /\ patrol_call'.returned =>
          patrol_status = "active" /\ patrol_status' = "idle"]_vars
  /\ [][~patrol_call'.returned =>
          UNCHANGED <<patrol_status, current_route, patrol_routes>>]_vars

\* after a patrol of the Playground, start_patrol for a name no route has was
\* refused
C27_Witness ==
  /\ patrol_call = [op |-> "start_patrol", route_name |-> "Gym", returned |-> FALSE]
  /\ patrol_status = "idle"
  /\ current_route = None
  /\ patrol_routes[3].last_patrol # Never

\* every start_patrol so far was called without a route name
OnlyAutomaticSelection ==
  patrol_call.op = "start_patrol" => ~Truthy(patrol_call.route_name)

\* C30: when start_patrol() without a route name and end_patrol() are called
\* in turn forever, every route of patrol_routes is patrolled at some time:
\* the automatic selection comes to choose a route that was not patrolled
\* over the one that was just patrolled.
C30_EveryRouteEventuallyPatrolled ==
  []OnlyAutomaticSelection =>
    \A i \in 1..Len(initialize_patrol_routes) :
       <>(patrol_routes[i].last_patrol # Never)

-----------------------------------------------------------------------------
(* The claim about the movement workers (SpecMotion).                      *)

\* the worker has sent its movement command and not yet its stop command
Driving(w) == worker[w].pc \in {"driving", "stopping"}

\* C29: for every interleaving of the movement methods, stop and
\* reset_emergency_stop with the worker threads, at most one worker drives
\* the motors at any time, and a movement is started only when no other
\* movement is in progress: a request made during a movement is refused.
C29_OneWorkerDrives ==
  /\ [](Cardinality({w \in Workers : Driving(w)}) <= 1)
  /\ [][\A w \in Workers :
          worker[w] = NoWorker /\ worker'[w] # NoWorker =>
            \A v \in Workers : worker[v] = NoWorker]_vars

====
